---- MODULE Spec2Model ----
(***************************************************************************)
(* Deterministic bitcoin commitment anchors (dbc/src/anchor.rs).           *)
(*                                                                         *)
(* Hash values are modelled as sequences of naturals built by prefix-free  *)
(* constructors, i.e. collision-free hashes: every digest is the tagged    *)
(* serialization of what was hashed.  AnchorId ordering is the             *)
(* lexicographic order of these sequences (byte order of the digest).      *)
(*                                                                         *)
(* The LNPBP-4 tree engine (commit_verify::lnpbp4), the tapret engine      *)
(* (crate::tapret) and the PSBT container (psbt crate) are not part of the *)
(* sources at hand; they are modelled after the interface contract of the  *)
(* specification, section 6.                                               *)
(***************************************************************************)
EXTENDS Integers, Sequences, FiniteSets, TLC

VARIABLES
    psbt,    \* psbt[i]: the transaction container of caller i (its outputs)
    orig,    \* orig[i]: the container of caller i as it was before any commit
    res,     \* res[i]: what commit / commit_static returned to caller i
    a,       \* a[i]: the Block anchor held in slot i
    origin,  \* origin[i]: the fully revealed anchor slot i derives from
    ret      \* record of the last library call: its inputs and its result

vars == <<psbt, orig, res, a, origin, ret>>

(***************************************************************************)
(* Bounds of the model                                                     *)
(***************************************************************************)
MaxEntropy == 2      \* entropies the random source may return: 1..MaxEntropy
MaxOutputs == 2      \* outputs of a transaction container
MaxTxLen == 2        \* outputs of a transaction handed to verify

Callers == {1, 2}
Slots == {1, 2}
ProtocolIds == {1, 2, 9}
Messages == {1, 2}

(***************************************************************************)
(* Result<T, E>                                                            *)
(***************************************************************************)
Ok(v) == [ok |-> TRUE, val |-> v, err |-> "none"]
Err(e) == [ok |-> FALSE, val |-> <<>>, err |-> e]

ResEq(r1, r2) ==
    /\ r1.ok = r2.ok
    /\ IF r1.ok THEN r1.val = r2.val ELSE r1.err = r2.err

Range(s) == {s[i] : i \in DOMAIN s}

RECURSIVE Reverse(_)
Reverse(s) == IF s = <<>> THEN <<>> ELSE Append(Reverse(Tail(s)), Head(s))

\* Lexicographic comparison of two digests: "Less", "Equal" or "Greater".
SeqCmp(s, t) ==
    LET n == IF Len(s) < Len(t) THEN Len(s) ELSE Len(t)
        D == {i \in 1..n : s[i] # t[i]}
    IN  IF D = {}
        THEN (IF Len(s) < Len(t) THEN "Less"
              ELSE IF Len(s) > Len(t) THEN "Greater" ELSE "Equal")
        ELSE LET i == CHOOSE k \in D : \A j \in D : k <= j IN
             IF s[i] < t[i] THEN "Less" ELSE "Greater"

(***************************************************************************)
(* LNPBP-4 commitment-tree engine                                          *)
(***************************************************************************)
MAX_DEPTH == 4       \* deepest tree the engine builds (scaled down)

LeafHash(protocol_id, message) == <<1, protocol_id, message>>
EntropyHash(entropy, pos) == <<0, entropy, pos>>
BranchHash(l, r) == <<2>> \o l \o r
CommitmentHash(root) == <<3>> \o root

Width(depth) == 2 ^ depth

protocol_id_pos(protocol_id, width) == protocol_id % width

ordered_map_ok(messages, depth) ==
    \A p, q \in DOMAIN messages :
        p # q => protocol_id_pos(p, Width(depth)) # protocol_id_pos(q, Width(depth))

RECURSIVE fit_depth(_, _)
fit_depth(messages, depth) ==
    IF depth > MAX_DEPTH THEN -1
    ELSE IF ordered_map_ok(messages, depth) THEN depth
    ELSE fit_depth(messages, depth + 1)

\* MerkleTree::try_commit with the entropy the engine drew.
try_commit_entropy(source, entropy) ==
    LET d == fit_depth(source.messages, source.min_depth) IN
    IF d < 0 THEN Err("CantFitInMaxSlots")
    ELSE Ok([depth |-> d, entropy |-> entropy, messages |-> source.messages])

\* MerkleTree::try_commit_static: the entropy is pinned.
try_commit_static(source) == try_commit_entropy(source, 1)

tree_slot_hash(tree, pos) ==
    LET ps == {p \in DOMAIN tree.messages :
                   protocol_id_pos(p, Width(tree.depth)) = pos} IN
    IF ps = {} THEN EntropyHash(tree.entropy, pos)
    ELSE LET p == CHOOSE q \in ps : TRUE IN LeafHash(p, tree.messages[p])

RECURSIVE tree_node_hash(_, _, _)
tree_node_hash(tree, depth, index) ==
    IF depth = tree.depth THEN tree_slot_hash(tree, index)
    ELSE BranchHash(tree_node_hash(tree, depth + 1, 2 * index),
                    tree_node_hash(tree, depth + 1, 2 * index + 1))

tree_root(tree) == tree_node_hash(tree, 0, 0)

tree_consensus_commit(tree) == CommitmentHash(tree_root(tree))

ConcealedNode(depth, hash) ==
    [leaf |-> FALSE, protocol_id |-> 0, message |-> 0, depth |-> depth, hash |-> hash]
CommitmentLeaf(protocol_id, message) ==
    [leaf |-> TRUE, protocol_id |-> protocol_id, message |-> message,
     depth |-> 0, hash |-> <<>>]

depth_or(node, depth) == IF node.leaf THEN depth ELSE node.depth

merkle_node_with(node) ==
    IF node.leaf THEN LeafHash(node.protocol_id, node.message) ELSE node.hash

\* MerkleBlock::from(MerkleTree): every slot of the tree, leaves revealed.
block_from_tree(tree) ==
    [depth |-> tree.depth,
     cross_section |->
        [i \in 1..Width(tree.depth) |->
            LET ps == {p \in DOMAIN tree.messages :
                           protocol_id_pos(p, Width(tree.depth)) = i - 1} IN
            IF ps = {} THEN ConcealedNode(tree.depth, EntropyHash(tree.entropy, i - 1))
            ELSE LET p == CHOOSE q \in ps : TRUE IN CommitmentLeaf(p, tree.messages[p])]]

\* One pass over the cross-section joining sibling concealed nodes.
RECURSIVE merge_pass(_, _, _)
merge_pass(cs, offset, D) ==
    IF Len(cs) < 2 THEN cs
    ELSE LET n1 == cs[1]
             n2 == cs[2]
         IN  IF /\ ~n1.leaf /\ ~n2.leaf /\ n1.depth = n2.depth /\ n1.depth > 0
                /\ offset % (2 ^ (D - (n1.depth - 1))) = 0
             THEN <<ConcealedNode(n1.depth - 1, BranchHash(n1.hash, n2.hash))>>
                  \o merge_pass(Tail(Tail(cs)), offset + 2 ^ (D - (n1.depth - 1)), D)
             ELSE <<n1>> \o merge_pass(Tail(cs), offset + 2 ^ (D - depth_or(n1, D)), D)

RECURSIVE merge_loop(_, _)
merge_loop(cs, D) ==
    LET next == merge_pass(cs, 0, D) IN
    IF Len(next) = Len(cs) THEN cs ELSE merge_loop(next, D)

\* MerkleBlock::conceal_except: the block afterwards and the call's result.
block_conceal_except(block, protocols) ==
    LET D == block.depth
        cs == block.cross_section
        keep(n) == ~n.leaf \/ n.protocol_id \in protocols
        mapped == [i \in DOMAIN cs |->
                      IF keep(cs[i]) THEN cs[i]
                      ELSE ConcealedNode(D, merkle_node_with(cs[i]))]
        concealed == Cardinality({i \in DOMAIN cs : ~keep(cs[i])})
        found == {cs[i].protocol_id : i \in {j \in DOMAIN cs : cs[j].leaf}}
        merged == merge_loop(mapped, D)
    IN  IF protocols \subseteq found
        THEN [block |-> [depth |-> D, cross_section |-> merged],
              result |-> Ok(concealed + (Len(mapped) - Len(merged)))]
        ELSE [block |-> block, result |-> Err("LeafNotKnown")]

\* CommitConceal for MerkleBlock: the root, all leaves concealed.
block_root(block) ==
    merkle_node_with(block_conceal_except(block, {}).block.cross_section[1])

\* CommitEncode for MerkleBlock writes the root only.
block_commit_encode(block) == block_root(block)

block_consensus_commit(block) == CommitmentHash(block_root(block))

\* StrictEncode for MerkleBlock: the depth and every node of the cross-section.
RECURSIVE cross_section_encode(_)
cross_section_encode(cs) ==
    IF cs = <<>> THEN <<>>
    ELSE (IF Head(cs).leaf
          THEN <<1, Head(cs).protocol_id, Head(cs).message>>
          ELSE <<0, Head(cs).depth, Len(Head(cs).hash)>> \o Head(cs).hash)
         \o cross_section_encode(Tail(cs))

block_strict_encode(block) ==
    <<block.depth, Len(block.cross_section)>> \o cross_section_encode(block.cross_section)

revealed(block) ==
    {[protocol_id |-> n.protocol_id, message |-> n.message] :
        n \in {m \in Range(block.cross_section) : m.leaf}}

revealed_ids(block) == {l.protocol_id : l \in revealed(block)}

\* Number of leading nodes of cs that cover `span` slots of the tree.
RECURSIVE prefix_len(_, _, _)
prefix_len(cs, span, D) ==
    IF cs = <<>> \/ span <= 0 THEN 0
    ELSE 1 + prefix_len(Tail(cs), span - 2 ^ (D - depth_or(Head(cs), D)), D)

RECURSIVE merge_cross_sections(_, _, _)
merge_cross_sections(csA, csB, D) ==
    IF csA = <<>> \/ csB = <<>> THEN <<>>
    ELSE LET n1 == Head(csA)
             n2 == Head(csB)
             d1 == depth_or(n1, D)
             d2 == depth_or(n2, D)
         IN  IF d1 = d2
             THEN <<IF n1 = n2 THEN n1 ELSE IF n1.leaf THEN n1 ELSE n2>>
                  \o merge_cross_sections(Tail(csA), Tail(csB), D)
             ELSE IF d1 < d2
             THEN LET k == prefix_len(csB, 2 ^ (D - d1), D) IN
                  SubSeq(csB, 1, k)
                  \o merge_cross_sections(Tail(csA), SubSeq(csB, k + 1, Len(csB)), D)
             ELSE LET k == prefix_len(csA, 2 ^ (D - d2), D) IN
                  SubSeq(csA, 1, k)
                  \o merge_cross_sections(SubSeq(csA, k + 1, Len(csA)), Tail(csB), D)

\* MerkleBlock::merge_reveal
block_merge_reveal(block, other) ==
    IF block_consensus_commit(block) # block_consensus_commit(other)
    THEN Err("UnrelatedProof")
    ELSE Ok([depth |-> block.depth,
             cross_section |->
                merge_cross_sections(block.cross_section, other.cross_section,
                                     block.depth)])

\* MerkleBlock::to_merkle_proof: the siblings on the path of one leaf.
block_to_merkle_proof(block, protocol_id) ==
    LET c == block_conceal_except(block, {protocol_id}) IN
    IF ~c.result.ok THEN Err("LeafNotKnown")
    ELSE Ok([pos |-> protocol_id_pos(protocol_id, Width(block.depth)),
             path |-> [d \in 1..block.depth |->
                         (CHOOSE n \in Range(c.block.cross_section) :
                              ~n.leaf /\ n.depth = d).hash]])

RECURSIVE with_walk(_, _, _, _, _, _)
with_walk(path, i, pos, width, dir, rev) ==
    IF i > Len(path) THEN [dir |-> dir, rev |-> rev]
    ELSE IF pos >= width \div 2
    THEN with_walk(path, i + 1, pos - width \div 2, width \div 2,
                   Append(dir, ConcealedNode(i, path[i])), rev)
    ELSE with_walk(path, i + 1, pos, width \div 2,
                   dir, Append(rev, ConcealedNode(i, path[i])))

\* MerkleBlock::with(proof, protocol_id, message)
block_with(proof, protocol_id, message) ==
    LET width == Width(Len(proof.path)) IN
    IF protocol_id_pos(protocol_id, width) # proof.pos THEN Err("UnrelatedProof")
    ELSE LET w == with_walk(proof.path, 1, proof.pos, width, <<>>, <<>>) IN
         Ok([depth |-> Len(proof.path),
             cross_section |->
                w.dir \o <<CommitmentLeaf(protocol_id, message)>> \o Reverse(w.rev)])

\* MerkleProof::convolve
proof_convolve(proof, protocol_id, message) ==
    LET b == block_with(proof, protocol_id, message) IN
    IF b.ok THEN Ok(block_consensus_commit(b.val)) ELSE Err("UnrelatedProof")

(***************************************************************************)
(* Scripts, transactions and the tapret engine                             *)
(***************************************************************************)
\* A script is a sequence of words; the first one tells its kind.
OtherScript == <<0>>
new_op_return(data) == <<106>> \o data
is_op_return(script) == script # <<>> /\ script[1] = 106
new_v1_p2tr(internal_key) == <<81, internal_key>>
is_v1_p2tr(script) == script # <<>> /\ script[1] = 81

\* Iterator::find / position: index of the first TRUE of `hits`, 0 when
\* there is none.
first_index(hits) ==
    IF \E i \in DOMAIN hits : hits[i]
    THEN CHOOSE i \in DOMAIN hits : hits[i] /\ \A j \in 1..(i - 1) : ~hits[j]
    ELSE 0

\* TapretProof::restore_original on a transaction: the first taproot output
\* gets back the script of its untweaked key.
tapret_restore_original(proof, tx) ==
    LET i == first_index([n \in DOMAIN tx |-> is_v1_p2tr(tx[n])]) IN
    IF i = 0 THEN tx ELSE [tx EXCEPT ![i] = new_v1_p2tr(proof.internal_key)]

\* ConvolveCommit for Transaction: the first taproot output is tweaked with
\* the commitment.
tapret_convolve_commit(tx, msg) ==
    LET i == first_index([n \in DOMAIN tx |-> is_v1_p2tr(tx[n])]) IN
    IF i = 0 THEN Err("NoTaprootOutput") ELSE Ok([tx EXCEPT ![i] = tx[i] \o msg])

\* ConvolveCommitProof::verify
tapret_verify(proof, msg, tx) ==
    LET c == tapret_convolve_commit(tapret_restore_original(proof, tx), msg) IN
    IF c.ok THEN Ok(c.val = tx) ELSE c

(***************************************************************************)
(* Proof: the embedding strategy (anchor.rs, enum Proof)                   *)
(***************************************************************************)
OpretFirst == [tapret |-> FALSE, internal_key |-> 0]
TapretFirst(internal_key) == [tapret |-> TRUE, internal_key |-> internal_key]

\* strict_encoding(by_order): the discriminant, then the payload.
proof_strict_encode(proof) ==
    IF proof.tapret THEN <<1, proof.internal_key>> ELSE <<0>>

\* Variant of proof_verify: any OP_RETURN output carrying the commitment
\* satisfies the DirectData proof.
proof_verify_any_output(proof, msg, tx) ==
    IF ~proof.tapret
    THEN Ok(\E i \in DOMAIN tx : tx[i] = new_op_return(msg))
    ELSE tapret_verify(proof, msg, tx)

\* Proof::verify
proof_verify(proof, msg, tx) ==
    IF ~proof.tapret
    THEN LET i == first_index([n \in DOMAIN tx |-> is_op_return(tx[n])]) IN
         IF i = 0 THEN Ok(FALSE) ELSE Ok(tx[i] = new_op_return(msg))
    ELSE tapret_verify(proof, msg, tx)

(***************************************************************************)
(* Anchor<L> and AnchorId                                                  *)
(***************************************************************************)
Anchor(txid, lnpbp4_proof, dbc_proof) ==
    [txid |-> txid, lnpbp4_proof |-> lnpbp4_proof, dbc_proof |-> dbc_proof]

\* Variant of commit_encode: the block is written in full (strict encoding),
\* revealed leaves included, instead of by its commit encoding.
commit_encode_revealed(anchor) ==
    anchor.txid \o proof_strict_encode(anchor.dbc_proof)
                \o block_strict_encode(anchor.lnpbp4_proof)

\* CommitEncode for Anchor<MerkleBlock>: txid, dbc_proof, then the commit
\* encoding of the block.
commit_encode(anchor) ==
    anchor.txid \o proof_strict_encode(anchor.dbc_proof)
                \o block_commit_encode(anchor.lnpbp4_proof)

\* AnchorId::hash: the tagged hash of the commit encoding.
anchor_id(anchor) == <<4>> \o commit_encode(anchor)

\* Variant of anchor_cmp: a field-wise (derived) ordering of the anchors.
anchor_cmp_derived(self, other) ==
    SeqCmp(self.txid \o block_strict_encode(self.lnpbp4_proof)
                     \o proof_strict_encode(self.dbc_proof),
           other.txid \o block_strict_encode(other.lnpbp4_proof)
                      \o proof_strict_encode(other.dbc_proof))

\* Ord for Anchor<MerkleBlock>
anchor_cmp(self, other) == SeqCmp(anchor_id(self), anchor_id(other))

\* Variant of to_merkle_block: the embedding proof is not carried over.
to_merkle_block_no_proof(self, protocol_id, message) ==
    LET b == block_with(self.lnpbp4_proof, protocol_id, message) IN
    IF ~b.ok THEN Err("UnrelatedProof")
    ELSE Ok(Anchor(self.txid, b.val, OpretFirst))

\* Anchor<MerkleProof>::into_merkle_block / to_merkle_block
to_merkle_block(self, protocol_id, message) ==
    LET b == block_with(self.lnpbp4_proof, protocol_id, message) IN
    IF ~b.ok THEN Err("UnrelatedProof")
    ELSE Ok(Anchor(self.txid, b.val, self.dbc_proof))

\* Anchor<MerkleProof>::anchor_id
proof_anchor_id(self, protocol_id, message) ==
    LET b == to_merkle_block(self, protocol_id, message) IN
    IF ~b.ok THEN Err("UnrelatedProof") ELSE Ok(anchor_id(b.val))

\* Anchor<MerkleProof>::convolve
anchor_convolve(self, protocol_id, message) ==
    proof_convolve(self.lnpbp4_proof, protocol_id, message)

\* Variant of anchor_verify: a proof of another protocol counts as a mismatch.
anchor_verify_unrelated_false(self, protocol_id, message, tx) ==
    LET c == proof_convolve(self.lnpbp4_proof, protocol_id, message) IN
    IF ~c.ok THEN Ok(FALSE)
    ELSE LET r == proof_verify(self.dbc_proof, c.val, tx) IN
         IF r.ok THEN Ok(r.val) ELSE Err("Tapret")

\* Anchor<MerkleProof>::verify
anchor_verify(self, protocol_id, message, tx) ==
    LET c == proof_convolve(self.lnpbp4_proof, protocol_id, message) IN
    IF ~c.ok THEN Err("Lnpbp4UnrelatedProtocol")
    ELSE LET r == proof_verify(self.dbc_proof, c.val, tx) IN
         IF r.ok THEN Ok(r.val) ELSE Err("Tapret")

\* Anchor<MerkleBlock>::into_merkle_proof / to_merkle_proof
to_merkle_proof(self, protocol) ==
    LET p == block_to_merkle_proof(self.lnpbp4_proof, protocol) IN
    IF ~p.ok THEN Err("LeafNotKnown")
    ELSE Ok(Anchor(self.txid, p.val, self.dbc_proof))

\* Anchor<MerkleBlock>::conceal_except: the anchor afterwards and the result.
conceal_except(self, protocols) ==
    LET c == block_conceal_except(self.lnpbp4_proof, protocols) IN
    [anchor |-> [self EXCEPT !.lnpbp4_proof = c.block], result |-> c.result]

\* Variant of merge_reveal: the embedding proofs are compared first.
merge_reveal_proof_first(self, other) ==
    IF self.dbc_proof # other.dbc_proof THEN Err("ProofMismatch")
    ELSE IF self.txid # other.txid THEN Err("TxidMismatch")
    ELSE LET m == block_merge_reveal(self.lnpbp4_proof, other.lnpbp4_proof) IN
         IF ~m.ok THEN Err("Lnpbp4Mismatch")
         ELSE Ok([self EXCEPT !.lnpbp4_proof = m.val])

\* Variant of merge_reveal: the merged tree is dropped, self is returned.
merge_reveal_unmerged(self, other) ==
    IF self.txid # other.txid THEN Err("TxidMismatch")
    ELSE IF self.dbc_proof # other.dbc_proof THEN Err("ProofMismatch")
    ELSE LET m == block_merge_reveal(self.lnpbp4_proof, other.lnpbp4_proof) IN
         IF ~m.ok THEN Err("Lnpbp4Mismatch")
         ELSE Ok(self)

\* Anchor<MerkleBlock>::merge_reveal
merge_reveal(self, other) ==
    IF self.txid # other.txid THEN Err("TxidMismatch")
    ELSE IF self.dbc_proof # other.dbc_proof THEN Err("ProofMismatch")
    ELSE LET m == block_merge_reveal(self.lnpbp4_proof, other.lnpbp4_proof) IN
         IF ~m.ok THEN Err("Lnpbp4Mismatch")
         ELSE Ok([self EXCEPT !.lnpbp4_proof = m.val])

\* MerkleBlock::from(MerkleTree) applied to an Anchor<MerkleTree>, as
\* Anchor::commit does with what embed_commit returned.
tree_anchor_to_block(anchor) ==
    Anchor(anchor.txid, block_from_tree(anchor.lnpbp4_proof), anchor.dbc_proof)

(***************************************************************************)
(* The transaction container (PSBT) and the embedding workflow             *)
(***************************************************************************)
ANCHOR_MIN_LNPBP4_DEPTH == 3

None == <<>>
Some(v) == <<v>>

Output(tapret_host, opret_host, script, key, messages, min_depth) ==
    [tapret_host |-> tapret_host, opret_host |-> opret_host, script |-> script,
     tap_internal_key |-> key, messages |-> messages, min_depth |-> min_depth,
     entropy |-> None, tapret_commitment |-> None, opret_commitment |-> None]

is_tapret_host(output) == output.tapret_host
is_opret_host(output) == output.opret_host

\* Psbt::to_txid: the id of the unsigned transaction, a digest of its outputs.
RECURSIVE scripts_encode(_)
scripts_encode(tx) ==
    IF tx = <<>> THEN <<>>
    ELSE <<Len(Head(tx))>> \o Head(tx) \o scripts_encode(Tail(tx))

to_tx(container) == [i \in DOMAIN container |-> container[i].script]

txid_of(tx) == LET e == scripts_encode(tx) IN <<Len(e)>> \o e

to_txid(container) == txid_of(to_tx(container))

\* The closure lnpbp4_tree of embed_commit: the source read from one output.
multi_source(output) ==
    [min_depth |-> IF output.min_depth = None THEN ANCHOR_MIN_LNPBP4_DEPTH
                   ELSE output.min_depth[1],
     messages |-> output.messages]

\* The script-path branch: the output is tweaked by the tapret engine, the
\* commitment and the entropy are recorded on it.
embed_tapret(container, k, tree, entropy) ==
    LET commitment == tree_consensus_commit(tree)
        proof == TapretFirst(container[k].tap_internal_key)
    IN  [psbt |-> [container EXCEPT
                      ![k].script = new_v1_p2tr(container[k].tap_internal_key)
                                    \o commitment,
                      ![k].tapret_commitment = Some(commitment),
                      ![k].entropy = Some(entropy)],
         proof |-> proof]

\* Variant of embed_opret: the script of the output is left as it was.
embed_opret_keep_script(container, k, tree, entropy) ==
    LET commitment == tree_consensus_commit(tree) IN
    [psbt |-> [container EXCEPT
                  ![k].opret_commitment = Some(commitment),
                  ![k].entropy = Some(entropy)],
     proof |-> OpretFirst]

\* The data-output branch: the script becomes OP_RETURN <commitment>.
embed_opret(container, k, tree, entropy) ==
    LET commitment == tree_consensus_commit(tree) IN
    [psbt |-> [container EXCEPT
                  ![k].script = new_op_return(commitment),
                  ![k].opret_commitment = Some(commitment),
                  ![k].entropy = Some(entropy)],
     proof |-> OpretFirst]

\* Variant of embed_commit: the entropy is recorded on the host output before
\* the tree is built, so a tree-construction failure leaves it behind.
embed_commit_write_first(container, entropy) ==
    LET t == first_index([n \in DOMAIN container |-> is_tapret_host(container[n])])
        o == first_index([n \in DOMAIN container |-> is_opret_host(container[n])])
        k == IF t # 0 THEN t ELSE o
    IN  IF k = 0 THEN [psbt |-> container, result |-> Err("CommitmentImpossible")]
        ELSE LET tree == try_commit_entropy(multi_source(container[k]), entropy) IN
             IF ~tree.ok
             THEN [psbt |-> [container EXCEPT ![k].entropy = Some(entropy)],
                   result |-> Err("Lnpbp4")]
             ELSE LET e == IF t # 0
                           THEN embed_tapret(container, k, tree.val, tree.val.entropy)
                           ELSE embed_opret(container, k, tree.val, tree.val.entropy)
                  IN  [psbt |-> e.psbt,
                       result |-> Ok(Anchor(to_txid(e.psbt), tree.val, e.proof))]

\* Variant of embed_commit: the first host of either kind, by position.
embed_commit_by_position(container, entropy) ==
    LET is_host(out) == is_tapret_host(out) \/ is_opret_host(out)
        k == first_index([n \in DOMAIN container |-> is_host(container[n])])
    IN  IF k = 0 THEN [psbt |-> container, result |-> Err("CommitmentImpossible")]
        ELSE LET tree == try_commit_entropy(multi_source(container[k]), entropy) IN
             IF ~tree.ok THEN [psbt |-> container, result |-> Err("Lnpbp4")]
             ELSE LET e == IF is_tapret_host(container[k])
                           THEN embed_tapret(container, k, tree.val, tree.val.entropy)
                           ELSE embed_opret(container, k, tree.val, tree.val.entropy)
                  IN  [psbt |-> e.psbt,
                       result |-> Ok(Anchor(to_txid(e.psbt), tree.val, e.proof))]

\* Psbt::embed_commit; `entropy` is what the tree engine draws at random.
\* Gives the container afterwards and Result<Anchor<MerkleTree>, _>.
embed_commit(container, entropy) ==
    LET t == first_index([n \in DOMAIN container |-> is_tapret_host(container[n])])
        o == first_index([n \in DOMAIN container |-> is_opret_host(container[n])])
    IN  IF t # 0
        THEN LET tree == try_commit_entropy(multi_source(container[t]), entropy) IN
             IF ~tree.ok THEN [psbt |-> container, result |-> Err("Lnpbp4")]
             ELSE LET e == embed_tapret(container, t, tree.val, tree.val.entropy) IN
                  [psbt |-> e.psbt,
                   result |-> Ok(Anchor(to_txid(e.psbt), tree.val, e.proof))]
        ELSE IF o # 0
        THEN LET tree == try_commit_entropy(multi_source(container[o]), entropy) IN
             IF ~tree.ok THEN [psbt |-> container, result |-> Err("Lnpbp4")]
             ELSE LET e == embed_opret(container, o, tree.val, tree.val.entropy) IN
                  [psbt |-> e.psbt,
                   result |-> Ok(Anchor(to_txid(e.psbt), tree.val, e.proof))]
        ELSE [psbt |-> container, result |-> Err("CommitmentImpossible")]

\* Variant of embed_commit_static: the tree is built with drawn entropy.
embed_commit_static_drawn(container) == embed_commit(container, MaxEntropy)

\* Psbt::embed_commit_static
embed_commit_static(container) ==
    LET t == first_index([n \in DOMAIN container |-> is_tapret_host(container[n])])
        o == first_index([n \in DOMAIN container |-> is_opret_host(container[n])])
    IN  IF t # 0
        THEN LET tree == try_commit_static(multi_source(container[t])) IN
             IF ~tree.ok THEN [psbt |-> container, result |-> Err("Lnpbp4")]
             ELSE LET e == embed_tapret(container, t, tree.val, 1) IN
                  [psbt |-> e.psbt,
                   result |-> Ok(Anchor(to_txid(e.psbt), tree.val, e.proof))]
        ELSE IF o # 0
        THEN LET tree == try_commit_static(multi_source(container[o])) IN
             IF ~tree.ok THEN [psbt |-> container, result |-> Err("Lnpbp4")]
             ELSE LET e == embed_opret(container, o, tree.val, 1) IN
                  [psbt |-> e.psbt,
                   result |-> Ok(Anchor(to_txid(e.psbt), tree.val, e.proof))]
        ELSE [psbt |-> container, result |-> Err("CommitmentImpossible")]

\* Anchor::commit and Anchor::commit_static: the embedded anchor as a Block.
anchor_of_embedded(embedded) ==
    IF ~embedded.ok THEN embedded ELSE Ok(tree_anchor_to_block(embedded.val))

(***************************************************************************)
(* Inputs of the model                                                     *)
(***************************************************************************)
Map12 == (1 :> 1) @@ (2 :> 2)
Map12b == (1 :> 2) @@ (2 :> 1)
Map19 == (1 :> 1) @@ (9 :> 2)         \* 1 and 9 collide at depth 3
Map1x == (1 :> 1) @@ (17 :> 2)        \* 1 and 17 collide up to MAX_DEPTH

OutputTemplates ==
    { Output(TRUE, FALSE, new_v1_p2tr(1), 1, Map12, None),
      Output(TRUE, FALSE, new_v1_p2tr(1), 1, Map19, None),
      Output(TRUE, FALSE, new_v1_p2tr(1), 1, Map1x, None),
      Output(FALSE, TRUE, new_op_return(<<>>), 0, Map12b, Some(2)),
      Output(FALSE, TRUE, new_op_return(<<>>), 0, Map1x, Some(2)),
      Output(FALSE, FALSE, new_v1_p2tr(2), 2, <<>>, None),
      Output(FALSE, FALSE, new_op_return(<<7>>), 0, <<>>, None),
      Output(FALSE, FALSE, OtherScript, 0, <<>>, None) }

Containers == UNION {[1..n -> OutputTemplates] : n \in 1..MaxOutputs}

Entropies == 1..MaxEntropy

TreeMaps == {Map12, Map19}
TreeOf(messages, entropy) ==
    try_commit_entropy([min_depth |-> ANCHOR_MIN_LNPBP4_DEPTH, messages |-> messages],
                       entropy).val
Trees == {TreeOf(m, e) : m \in TreeMaps, e \in Entropies}
Txids == {<<1, 1>>, <<1, 2>>}
Proofs == {OpretFirst, TapretFirst(1)}
\* The Anchor<MerkleTree> values the Block anchors of the slots come from.
Origins == {Anchor(txid, tree, proof) : txid \in Txids, tree \in Trees, proof \in Proofs}
\* Anchors to merge and compare: trees that differ in their leaves, in their
\* entropy only, or in their depth.
MergeTrees == {TreeOf(Map12, 1), TreeOf(Map12, MaxEntropy), TreeOf(Map19, 1)}
MergeOrigins ==
    {Anchor(txid, tree, proof) : txid \in Txids, tree \in MergeTrees, proof \in Proofs}
\* The concealment states of the Block anchor of a full-tree anchor.
Forms(o) ==
    {conceal_except(tree_anchor_to_block(o), S).anchor :
        S \in SUBSET DOMAIN o.lnpbp4_proof.messages}

NoCall == [call |-> "none", embedded |-> Err("none"), result |-> Err("none")]
NoRet == [op |-> "none"]

(***************************************************************************)
(* Spec: the embedding workflow.  Two callers hold identical containers;   *)
(* each commits once, with random or static entropy, and then verifies     *)
(* single-leaf projections of its anchor against its transaction.          *)
(***************************************************************************)
Init ==
    /\ \E c \in Containers : psbt = [i \in Callers |-> c]
    /\ orig = psbt
    /\ res = [i \in Callers |-> NoCall]
    /\ a = <<>>
    /\ origin = <<>>
    /\ ret = NoRet

Commit(i, entropy) ==
    /\ res[i].call = "none" \/ ~res[i].embedded.ok
    /\ LET r == embed_commit(psbt[i], entropy) IN
       /\ psbt' = [psbt EXCEPT ![i] = r.psbt]
       /\ res' = [res EXCEPT ![i] = [call |-> "commit", embedded |-> r.result,
                                     result |-> anchor_of_embedded(r.result)]]
    /\ UNCHANGED <<orig, a, origin, ret>>

CommitStatic(i) ==
    /\ res[i].call = "none" \/ ~res[i].embedded.ok
    /\ LET r == embed_commit_static(psbt[i]) IN
       /\ psbt' = [psbt EXCEPT ![i] = r.psbt]
       /\ res' = [res EXCEPT ![i] = [call |-> "commit_static", embedded |-> r.result,
                                     result |-> anchor_of_embedded(r.result)]]
    /\ UNCHANGED <<orig, a, origin, ret>>

\* to_merkle_proof(protocol_id) on the committed anchor, then verify against
\* the transaction of the container as commit left it.  verify changes
\* nothing but the recorded result, so one recorded call per behaviour
\* reaches every state.
VerifyCommitted(i, protocol_id, message) ==
    /\ ret = NoRet
    /\ res[i].result.ok
    /\ LET sp == to_merkle_proof(res[i].result.val, protocol_id)
           tx == to_tx(psbt[i])
       IN  ret' = [op |-> "verify", caller |-> i, protocol_id |-> protocol_id,
                   message |-> message, tx |-> tx,
                   result |-> IF sp.ok
                              THEN anchor_verify(sp.val, protocol_id, message, tx)
                              ELSE Err("LeafNotKnown")]
    /\ UNCHANGED <<psbt, orig, res, a, origin>>

Next ==
    \E i \in Callers :
        \/ \E e \in Entropies : Commit(i, e)
        \/ CommitStatic(i)
        \/ \E p \in ProtocolIds, m \in Messages : VerifyCommitted(i, p, m)

Spec == Init /\ [][Next]_vars

(***************************************************************************)
(* SpecAnchor: the disclosure transforms on two Block anchors that come    *)
(* from the same full-tree anchor.                                         *)
(***************************************************************************)
InitAnchor ==
    /\ psbt = <<>> /\ orig = <<>> /\ res = <<>>
    /\ \E o \in Origins : origin = [i \in Slots |-> o]
    /\ a = [i \in Slots |-> tree_anchor_to_block(origin[i])]
    /\ ret = NoRet

ConcealExcept(i, protocols) ==
    /\ LET c == conceal_except(a[i], protocols) IN
       /\ a' = [a EXCEPT ![i] = c.anchor]
       /\ ret' = [op |-> "conceal_except", slot |-> i, before |-> a[i],
                  protocols |-> protocols, result |-> c.result, after |-> c.anchor]
    /\ UNCHANGED <<psbt, orig, res, origin>>

\* merge_reveal(a[i], a[j]); the caller keeps the merged anchor in slot i.
MergeReveal(i, j) ==
    /\ LET m == merge_reveal(a[i], a[j]) IN
       /\ a' = IF m.ok THEN [a EXCEPT ![i] = m.val] ELSE a
       /\ ret' = [op |-> "merge_reveal", slot |-> i, with |-> j, self |-> a[i],
                  other |-> a[j], result |-> m]
    /\ UNCHANGED <<psbt, orig, res, origin>>

ToMerkleProof(i, protocol) ==
    /\ ret' = [op |-> "to_merkle_proof", slot |-> i, anchor |-> a[i],
               protocol |-> protocol, result |-> to_merkle_proof(a[i], protocol)]
    /\ UNCHANGED <<psbt, orig, res, a, origin>>

NextAnchor ==
    \E i \in Slots :
        \/ \E S \in SUBSET ProtocolIds : ConcealExcept(i, S)
        \/ \E j \in Slots : MergeReveal(i, j)
        \/ \E p \in ProtocolIds : ToMerkleProof(i, p)

SpecAnchor == InitAnchor /\ [][NextAnchor]_vars

(***************************************************************************)
(* SpecMerge: merge_reveal and cmp on two Block anchors of any origin, in  *)
(* any concealment state.                                                  *)
(***************************************************************************)
InitMerge ==
    /\ psbt = <<>> /\ orig = <<>> /\ res = <<>>
    /\ origin \in [Slots -> MergeOrigins]
    /\ \E f1 \in Forms(origin[1]), f2 \in Forms(origin[2]) : a = <<f1, f2>>
    /\ ret = NoRet

Cmp(i, j) ==
    /\ ret' = [op |-> "cmp", self |-> a[i], other |-> a[j],
               result |-> anchor_cmp(a[i], a[j])]
    /\ UNCHANGED <<psbt, orig, res, a, origin>>

NextMerge ==
    \E i, j \in Slots :
        \/ MergeReveal(i, j)
        \/ Cmp(i, j)

SpecMerge == InitMerge /\ [][NextMerge]_vars

(***************************************************************************)
(* SpecVerify: Proof::verify and Anchor<MerkleProof>::verify on a          *)
(* transaction the caller supplies.  One call per behaviour.               *)
(***************************************************************************)
VerifyOrigins == {Anchor(<<1, 1>>, tree, proof) : tree \in Trees, proof \in Proofs}

WrongCommitment == CommitmentHash(LeafHash(0, 0))

\* Output scripts of the transactions handed to verify for origin o: they
\* carry the commitment of o's tree, another one, or none.
ScriptsFor(o) ==
    LET c == tree_consensus_commit(o.lnpbp4_proof) IN
    { OtherScript,
      new_op_return(c), new_op_return(WrongCommitment),
      new_v1_p2tr(1) \o c, new_v1_p2tr(1) \o WrongCommitment, new_v1_p2tr(2) \o c }

TxsFor(o) == UNION {[1..n -> ScriptsFor(o)] : n \in 0..MaxTxLen}

InitVerify ==
    /\ psbt = <<>> /\ orig = <<>> /\ res = <<>>
    /\ \E o \in VerifyOrigins : origin = [i \in Slots |-> o]
    /\ \E f \in Forms(origin[1]) : a = [i \in Slots |-> f]
    /\ ret = NoRet

\* One call per behaviour: the guard ret = NoRet comes before the inputs.
ProofVerify ==
    /\ ret = NoRet
    /\ \E tx \in TxsFor(origin[1]), proof \in Proofs,
          msg \in {tree_consensus_commit(origin[1].lnpbp4_proof), WrongCommitment} :
          ret' = [op |-> "proof_verify", proof |-> proof, msg |-> msg, tx |-> tx,
                  result |-> proof_verify(proof, msg, tx)]
    /\ UNCHANGED <<psbt, orig, res, a, origin>>

\* The single proof of `protocol` taken from a[1], verified for
\* (protocol_id, message) against tx.
AnchorVerify ==
    /\ ret = NoRet
    /\ \E protocol \in ProtocolIds :
          /\ to_merkle_proof(a[1], protocol).ok
          /\ \E tx \in TxsFor(origin[1]), protocol_id \in ProtocolIds, message \in Messages :
                LET sp == to_merkle_proof(a[1], protocol).val IN
                ret' = [op |-> "verify", anchor |-> sp, protocol_id |-> protocol_id,
                        message |-> message, tx |-> tx,
                        result |-> anchor_verify(sp, protocol_id, message, tx)]
    /\ UNCHANGED <<psbt, orig, res, a, origin>>

NextVerify ==
    \/ ProofVerify
    \/ AnchorVerify

SpecVerify == InitVerify /\ [][NextVerify]_vars

\* C2: Proof::verify for OpretFirst is decided by the first OP_RETURN output
\* alone: Ok(true) iff its script is the data script of the commitment,
\* Ok(false) if it differs (whatever follows), Ok(false) without OP_RETURN.
C2_FirstOpReturnDecides ==
    (ret.op = "proof_verify" /\ ~ret.proof.tapret) =>
    LET tx == ret.tx
        R == {i \in DOMAIN tx : tx[i][1] = 106}
    IN  /\ ret.result.ok
        /\ R = {} => ret.result.val = FALSE
        /\ R # {} =>
              LET f == CHOOSE i \in R : \A j \in R : i <= j IN
              ret.result.val = (tx[f] = <<106>> \o ret.msg)

\* The first OP_RETURN output carries other data, a later one the commitment.
C2_Witness ==
    /\ ret.op = "proof_verify" /\ ~ret.proof.tapret
    /\ Len(ret.tx) = 2
    /\ ret.tx[1] = new_op_return(WrongCommitment)
    /\ ret.tx[2] = new_op_return(ret.msg)
    /\ ret.result.ok /\ ret.result.val = FALSE

IdOfOrigin(o) ==
    <<4>> \o o.txid \o proof_strict_encode(o.dbc_proof) \o tree_root(o.lnpbp4_proof)

\* C1: a successful conceal_except leaves anchor_id as it was, after any
\* sequence of calls; conceal_except succeeds when every named protocol is
\* revealed in the anchor; the id is the digest of (txid, embedding proof,
\* tree root) whatever leaves are revealed.
C1_ConcealKeepsAnchorId ==
    /\ \A i \in Slots : anchor_id(a[i]) = IdOfOrigin(origin[i])
    /\ ret.op = "conceal_except" =>
          /\ ret.protocols \subseteq revealed_ids(ret.before.lnpbp4_proof)
                => ret.result.ok
          /\ ret.result.ok => anchor_id(ret.after) = anchor_id(ret.before)

\* A second successful concealment, which hides a leaf and keeps another.
C1_Witness ==
    /\ ret.op = "conceal_except" /\ ret.result.ok
    /\ ret.protocols # {}
    /\ ret.before # tree_anchor_to_block(origin[ret.slot])
    /\ revealed(ret.after.lnpbp4_proof) # revealed(ret.before.lnpbp4_proof)
    /\ revealed(ret.after.lnpbp4_proof) # {}

\* C7: for a protocol P revealed in Block anchor B, whatever else B conceals,
\* to_merkle_proof(P) succeeds, keeps txid and embedding proof, and with the
\* committed message its anchor_id is B's and its root is the tree's.
C7_SingleProofRoundTrip ==
    (ret.op = "to_merkle_proof"
        /\ ret.protocol \in revealed_ids(ret.anchor.lnpbp4_proof)) =>
    LET o == origin[ret.slot]
        P == ret.protocol
        m == o.lnpbp4_proof.messages[P]
        sp == ret.result.val
    IN  /\ ret.result.ok
        /\ sp.txid = ret.anchor.txid
        /\ sp.dbc_proof = ret.anchor.dbc_proof
        /\ proof_anchor_id(sp, P, m).ok
        /\ proof_anchor_id(sp, P, m).val = anchor_id(ret.anchor)
        /\ proof_anchor_id(sp, P, m).val = IdOfOrigin(o)
        /\ anchor_convolve(sp, P, m).ok
        /\ anchor_convolve(sp, P, m).val = tree_consensus_commit(o.lnpbp4_proof)
        /\ block_root(to_merkle_block(sp, P, m).val.lnpbp4_proof)
              = tree_root(o.lnpbp4_proof)

\* A single proof taken from an anchor that conceals another leaf and has a
\* script-path embedding proof.
C7_Witness ==
    /\ ret.op = "to_merkle_proof" /\ ret.result.ok
    /\ ret.anchor.dbc_proof.tapret
    /\ revealed_ids(ret.anchor.lnpbp4_proof) = {ret.protocol}
    /\ Len(ret.result.val.lnpbp4_proof.path) = MAX_DEPTH

\* C8: for anchors A and B of one full-tree anchor, merge_reveal(A, B) and
\* merge_reveal(B, A) succeed and are equal, merge_reveal(A, A) = A, the
\* result reveals the union of what A and B reveal and has their anchor_id.
C8_MergeSameOrigin ==
    ret.op = "merge_reveal" =>
    LET A == ret.self
        B == ret.other
        ab == ret.result
        ba == merge_reveal(B, A)
        aa == merge_reveal(A, A)
    IN  /\ ab.ok /\ ba.ok
        /\ ab.val = ba.val
        /\ aa.ok /\ aa.val = A
        /\ revealed(ab.val.lnpbp4_proof)
              = revealed(A.lnpbp4_proof) \cup revealed(B.lnpbp4_proof)
        /\ revealed(ba.val.lnpbp4_proof)
              = revealed(A.lnpbp4_proof) \cup revealed(B.lnpbp4_proof)
        /\ anchor_id(ab.val) = anchor_id(A)
        /\ anchor_id(ab.val) = anchor_id(B)
        /\ anchor_id(ba.val) = anchor_id(A)

\* A merge in which each side reveals a leaf the other conceals.
C8_Witness ==
    /\ ret.op = "merge_reveal" /\ ret.result.ok
    /\ revealed(ret.self.lnpbp4_proof) \ revealed(ret.other.lnpbp4_proof) # {}
    /\ revealed(ret.other.lnpbp4_proof) \ revealed(ret.self.lnpbp4_proof) # {}
    /\ Cardinality(revealed(ret.result.val.lnpbp4_proof)) = 2

(***************************************************************************)
(* Properties of merge_reveal and cmp on arbitrary anchors (SpecMerge)     *)
(***************************************************************************)
\* C5: merge_reveal returns TxidMismatch when the txids differ (whatever the
\* proofs), else ProofMismatch when the embedding proofs differ, else the
\* outcome of the tree merge, its failure as Lnpbp4Mismatch; an error
\* returns no anchor.
C5_MergeChecksInOrder ==
    ret.op = "merge_reveal" =>
    LET A == ret.self
        B == ret.other
        r == ret.result
        m == block_merge_reveal(A.lnpbp4_proof, B.lnpbp4_proof)
    IN  /\ A.txid # B.txid => ~r.ok /\ r.err = "TxidMismatch"
        /\ (A.txid = B.txid /\ A.dbc_proof # B.dbc_proof)
              => ~r.ok /\ r.err = "ProofMismatch"
        /\ (A.txid = B.txid /\ A.dbc_proof = B.dbc_proof /\ ~m.ok)
              => ~r.ok /\ r.err = "Lnpbp4Mismatch"
        /\ (A.txid = B.txid /\ A.dbc_proof = B.dbc_proof /\ m.ok)
              => r.ok /\ r.val = Anchor(A.txid, m.val, A.dbc_proof)
        /\ ~r.ok => r.val = <<>> /\ a[ret.slot] = A

\* A merge of anchors that differ in txid, in embedding proof and in tree.
C5_Witness ==
    /\ ret.op = "merge_reveal"
    /\ ret.self.txid # ret.other.txid
    /\ ret.self.dbc_proof # ret.other.dbc_proof
    /\ ~block_merge_reveal(ret.self.lnpbp4_proof, ret.other.lnpbp4_proof).ok
    /\ ret.result.err = "TxidMismatch"

Flip(ordering) ==
    IF ordering = "Less" THEN "Greater"
    ELSE IF ordering = "Greater" THEN "Less" ELSE "Equal"

CmpUniverse == {tree_anchor_to_block(o) : o \in MergeOrigins}

\* C10: cmp on Block anchors is the comparison of their AnchorIds: it is
\* reflexive, antisymmetric and transitive, and Equal exactly for anchors
\* with the same txid, embedding proof and tree root.
C10_CmpIsAnchorIdOrder ==
    ret.op = "cmp" =>
    LET A == ret.self
        B == ret.other
    IN  /\ ret.result = SeqCmp(anchor_id(A), anchor_id(B))
        /\ anchor_cmp(A, A) = "Equal"
        /\ anchor_cmp(B, A) = Flip(ret.result)
        /\ (ret.result = "Equal") <=>
              (/\ A.txid = B.txid
               /\ A.dbc_proof = B.dbc_proof
               /\ block_root(A.lnpbp4_proof) = block_root(B.lnpbp4_proof))
        /\ \A Z \in CmpUniverse :
              /\ (ret.result # "Greater" /\ anchor_cmp(B, Z) # "Greater")
                    => anchor_cmp(A, Z) # "Greater"
              /\ (anchor_cmp(Z, A) # "Greater" /\ ret.result # "Greater")
                    => anchor_cmp(Z, B) # "Greater"

\* Two anchors that reveal different leaves and compare Equal.
C10_Witness ==
    /\ ret.op = "cmp" /\ ret.result = "Equal"
    /\ revealed(ret.self.lnpbp4_proof) # revealed(ret.other.lnpbp4_proof)
    /\ ret.self # ret.other

(***************************************************************************)
(* Properties of the embedding workflow (Spec)                             *)
(***************************************************************************)
\* The output commit chooses in container c: the first script-path host,
\* else the first data-output host, else 0.
ChosenOutput(c) ==
    IF \E j \in DOMAIN c : c[j].tapret_host
    THEN CHOOSE j \in DOMAIN c :
            c[j].tapret_host /\ \A l \in 1..(j - 1) : ~c[l].tapret_host
    ELSE IF \E j \in DOMAIN c : c[j].opret_host
    THEN CHOOSE j \in DOMAIN c :
            c[j].opret_host /\ \A l \in 1..(j - 1) : ~c[l].opret_host
    ELSE 0

\* C4: commit uses the first script-path host if there is one (ScriptPath),
\* else the first data-output host (DirectData), else fails with
\* CommitmentImpossible; messages and minimum depth (3 when unset) are read
\* from the chosen output and no other output is touched.
C4_HostByStrategyPriority ==
    \A i \in Callers : res[i].call # "none" =>
    LET c == orig[i]
        k == ChosenOutput(c)
        e == res[i].embedded
    IN  /\ (k = 0) <=> (~e.ok /\ e.err = "CommitmentImpossible")
        /\ k = 0 => psbt[i] = c
        /\ k # 0 =>
            LET min_depth == IF c[k].min_depth = None THEN 3 ELSE c[k].min_depth[1]
                depth == fit_depth(c[k].messages, min_depth)
                commitment == tree_consensus_commit(e.val.lnpbp4_proof)
            IN  /\ e.ok <=> depth >= 0
                /\ e.ok =>
                    /\ e.val.dbc_proof.tapret = c[k].tapret_host
                    /\ e.val.lnpbp4_proof.messages = c[k].messages
                    /\ e.val.lnpbp4_proof.depth = depth
                    /\ \A j \in DOMAIN c : j # k => psbt[i][j] = c[j]
                    /\ psbt[i][k].entropy # None
                    /\ IF c[k].tapret_host
                       THEN psbt[i][k].tapret_commitment = Some(commitment)
                       ELSE /\ psbt[i][k].opret_commitment = Some(commitment)
                            /\ psbt[i][k].script = new_op_return(commitment)

\* A data-output host comes first, a script-path host second, and commit
\* used the script-path host.
C4_Witness ==
    \E i \in Callers :
        /\ res[i].embedded.ok
        /\ Len(orig[i]) >= 2
        /\ orig[i][1].opret_host /\ orig[i][2].tapret_host
        /\ res[i].embedded.val.dbc_proof.tapret
        /\ psbt[i][2].tapret_commitment # None

HostIsCarrier(i) ==
    LET k == ChosenOutput(orig[i])
        tx == to_tx(psbt[i])
    IN  IF orig[i][k].tapret_host
        THEN \A l \in 1..(k - 1) : ~is_v1_p2tr(tx[l])
        ELSE \A l \in 1..(k - 1) : ~is_op_return(tx[l])

CommittedPair ==
    /\ ret.op = "verify"
    /\ ret.protocol_id \in DOMAIN orig[ret.caller][ChosenOutput(orig[ret.caller])].messages
    /\ ret.message
          = orig[ret.caller][ChosenOutput(orig[ret.caller])].messages[ret.protocol_id]

\* C3 as stated: after a successful commit, for every (protocol, message) of
\* the chosen output, to_merkle_proof then verify against the transaction of
\* the container gives Ok(true), whatever other outputs the container holds.
C3_VerifyAfterCommit ==
    CommittedPair => (ret.result.ok /\ ret.result.val)

\* C3 amended: ... gives Ok(true) provided no OP_RETURN output (DirectData),
\* resp. no taproot output (ScriptPath), precedes the chosen output.
C3_VerifyAfterCommitCarrier ==
    (CommittedPair /\ HostIsCarrier(ret.caller)) => (ret.result.ok /\ ret.result.val)

\* A committed pair verifies in a container that holds another output before
\* the chosen one.
C3_Witness ==
    /\ CommittedPair /\ HostIsCarrier(ret.caller)
    /\ ChosenOutput(orig[ret.caller]) = 2
    /\ ret.result.ok /\ ret.result.val

\* C11: when commit or commit_static fails with CommitmentImpossible or with
\* a tree-construction error, the container equals the container before the
\* call: no script, commitment or entropy has been written to any output.
C11_FailedCommitKeepsContainer ==
    \A i \in Callers :
        (/\ res[i].call # "none"
         /\ ~res[i].embedded.ok
         /\ res[i].embedded.err \in {"CommitmentImpossible", "Lnpbp4"})
        => /\ psbt[i] = orig[i]
           /\ ~res[i].result.ok

\* A call found a host, failed building its tree, and returned with the
\* container as it was.
C11_Witness ==
    \E i \in Callers :
        /\ res[i].call # "none"
        /\ ~res[i].embedded.ok
        /\ res[i].embedded.err = "Lnpbp4"
        /\ \E n \in DOMAIN orig[i] : is_tapret_host(orig[i][n]) \/ is_opret_host(orig[i][n])
        /\ psbt[i] = orig[i]

====
